---------------------------- MODULE Spec2Model ----------------------------
(***************************************************************************)
(* State-machine model of two easyblocks:                                  *)
(*   easybuild/easyblocks/generic/configuremake.py  (ConfigureMake)        *)
(*   easybuild/easyblocks/e/elpa.py                 (EB_ELPA)              *)
(*                                                                         *)
(* Python strings that hold command-line options are modelled as the       *)
(* sequence of their whitespace-separated words; a single word is a TLA+   *)
(* string, and Python's + on words is \o.  None is the string "None".      *)
(* A CPU feature attribute is "auto" (None), "enabled" (True) or           *)
(* "disabled" (False).                                                     *)
(***************************************************************************)
EXTENDS Naturals, Sequences, FiniteSets, TLC

VARIABLES
    easyblock,     \* class of the instance: "ConfigureMake" or "EB_ELPA"
    easyconfig,    \* the declared easyconfig parameters (never modified)
    env,           \* build options, toolchain options and host properties
    cfg,           \* self.cfg entries the easyblocks modify (option strings)
    feat,          \* EB_ELPA: self.<flag> for each flag of ELPA_CPU_FEATURE_FLAGS
    config_guess,  \* self.config_guess: "None" or the source path holding the script
    fs,            \* per source path: content of <path>/generic/eb_v*/ConfigureMake/config.guess
    iter_opts,     \* driver: the option lists it iterates over
    iter_idx,      \* driver: index of the build variant being run (0 before the first)
    pc,            \* position of the life cycle
    log,           \* history: external commands run, in order, with exit status
    obtainLog,     \* history: calls of obtain_config_guess, in order
    call           \* arguments of a call of obtain_config_guess from outside the steps

vars == <<easyblock, easyconfig, env, cfg, feat, config_guess, fs,
          iter_opts, iter_idx, pc, log, obtainLog, call>>

None == "None"

(***************************************************************************)
(* elpa.py                                                                 *)
(***************************************************************************)
ELPA_CPU_FEATURE_FLAGS == <<"avx", "avx2", "avx512f", "vsx", "sse4_2">>

Features == {ELPA_CPU_FEATURE_FLAGS[i] : i \in DOMAIN ELPA_CPU_FEATURE_FLAGS}

\* names get_cpu_features() may report on the host
HostFeatureNames == Features \cup {"avx1.0"}

TriStates == {"auto", "enabled", "disabled"}

\* configure flag names of a CPU feature (extra_options and run_all_steps)
conf_opt(flag) ==
    IF flag = "sse4_2" THEN <<"sse", "sse-assembly">>
    ELSE IF flag = "avx512f" THEN <<"avx512">>
    ELSE <<flag>>

\* A self.cfg option value is a string, Str(<<words>>), or a list of strings,
\* List(<<strings>>), each string being its sequence of words.
Str(words) == [kind |-> "str", val |-> words]

List(strings) == [kind |-> "list", val |-> strings]

IsList(v) == v.kind = "list"

\* self.cfg.update(key, value): a word is appended to a string value
\* ('%s %s ' % (prev, value)); a list value is extended by the given list.
update(prev_value, value) ==
    IF IsList(prev_value)
    THEN List(prev_value.val \o value)
    ELSE Str(Append(prev_value.val, value))

RECURSIVE update_all(_, _)
update_all(prev_value, values) ==
    IF values = <<>> THEN prev_value
    ELSE update_all(update(prev_value, Head(values)), Tail(values))

\* cpu_features that does not look at --optarch=GENERIC
cpu_features_ignoring_generic(optarch_generic) == ELPA_CPU_FEATURE_FLAGS

\* the features considered for auto-detection
cpu_features(optarch_generic) ==
    IF optarch_generic THEN <<>> ELSE ELPA_CPU_FEATURE_FLAGS

\* avail_cpu_features whose alias rule also adds avx2
avail_cpu_features_alias_avx2(host) ==
    IF "avx1.0" \in host THEN host \cup {"avx", "avx2"} ELSE host

\* the host's features after the macOS aliasing rule
avail_cpu_features(host) ==
    IF "avx1.0" \in host THEN host \cup {"avx"} ELSE host

InSeq(x, s) == \E i \in DOMAIN s : s[i] = x

\* EB_ELPA.__init__: the value of self.<flag> for every flag
ELPA_init_features(use, auto_detect, optarch_generic, host) ==
    [flag \in Features |->
        IF /\ auto_detect
           /\ InSeq(flag, cpu_features(optarch_generic))
           /\ use[flag] = "auto"
           /\ flag \in avail_cpu_features(host)
        THEN "enabled"
        ELSE use[flag]]

\* Python truth value of self.<flag>
Truthy(v) == v = "enabled"

\* feature_opts without the special case of avx512f (flag named as the feature)
feature_opts_no_avx512_case(flag, value) ==
    IF flag = "sse4_2"
    THEN IF Truthy(value) THEN <<"--enable-sse", "--enable-sse-assembly">>
                          ELSE <<"--disable-sse", "--disable-sse-assembly">>
    ELSE IF Truthy(value) THEN <<"--enable-" \o flag>> ELSE <<"--disable-" \o flag>>

\* the --enable-*/--disable-* words run_all_steps appends for one feature
feature_opts(flag, value) ==
    IF flag = "sse4_2"
    THEN IF Truthy(value) THEN <<"--enable-sse", "--enable-sse-assembly">>
                          ELSE <<"--disable-sse", "--disable-sse-assembly">>
    ELSE IF flag = "avx512f"
    THEN IF Truthy(value) THEN <<"--enable-avx512">> ELSE <<"--disable-avx512">>
    ELSE IF Truthy(value) THEN <<"--enable-" \o flag>> ELSE <<"--disable-" \o flag>>

RECURSIVE all_feature_opts(_, _)
all_feature_opts(f, i) ==
    IF i > Len(ELPA_CPU_FEATURE_FLAGS) THEN <<>>
    ELSE feature_opts(ELPA_CPU_FEATURE_FLAGS[i], f[ELPA_CPU_FEATURE_FLAGS[i]])
         \o all_feature_opts(f, i + 1)

\* the options common to all builds that run_all_steps appends to configopts
appended_config_opts(ec, pic, f) ==
    (IF pic THEN <<"--with-pic">> ELSE <<>>)
    \o (IF ec.with_shared THEN <<"--enable-shared">> ELSE <<>>)
    \o (IF ec.with_generic_kernel THEN <<"--enable-generic">> ELSE <<>>)
    \o (IF ec.with_single THEN <<"--enable-single-precision">> ELSE <<>>)
    \o all_feature_opts(f, 1)

\* with_omp_opts with the OpenMP build first
with_omp_opts_omp_first(with_openmp) ==
    IF with_openmp THEN <<TRUE, FALSE>> ELSE <<FALSE>>

with_omp_opts(with_openmp) ==
    IF with_openmp THEN <<FALSE, TRUE>> ELSE <<FALSE>>

omp_configopt(with_omp) ==
    IF with_omp THEN "--enable-openmp" ELSE "--disable-openmp"

\* variant_configopts that leaves out the common options
variant_configopts_flag_only(with_omp, common_config_opts) ==
    <<omp_configopt(with_omp)>>

\* one configopts entry: omp_configopt + ' ' + common_config_opts
variant_configopts(with_omp, common_config_opts) ==
    <<omp_configopt(with_omp)>> \o common_config_opts

\* the loop over with_omp_opts, starting from empty lists
RECURSIVE expand_variants(_, _, _, _)
expand_variants(c, omp_opts, common_config_opts, common_build_opts) ==
    IF omp_opts = <<>> THEN c
    ELSE expand_variants(
            [c EXCEPT
                !.configopts = update(@, <<variant_configopts(Head(omp_opts),
                                                               common_config_opts)>>),
                !.buildopts = update(@, <<common_build_opts>>)],
            Tail(omp_opts), common_config_opts, common_build_opts)

\* self.cfg after the option handling of EB_ELPA.run_all_steps
ELPA_run_all_steps_cfg(c, ec, pic, f) ==
    LET c1 == [c EXCEPT
                 !.preconfigopts = update(@, "autoreconf &&"),
                 !.configopts = update_all(@, appended_config_opts(ec, pic, f)),
                 !.buildopts = update(@, "V=1")]
        common_config_opts == c1.configopts.val
        common_build_opts == c1.buildopts.val
        c2 == [c1 EXCEPT !.configopts = List(<<>>), !.buildopts = List(<<>>)]
    IN  expand_variants(c2, with_omp_opts(ec.with_openmp),
                        common_config_opts, common_build_opts)

(***************************************************************************)
(* configuremake.py                                                        *)
(***************************************************************************)
\* number of configured source paths
NumSourcePaths == 2

SourcePathNames == <<"/sources1", "/sources2", "/sources3">>

\* source_paths(): the configured source paths, in priority order
source_paths == SubSeq(SourcePathNames, 1, NumSourcePaths)

Paths == {source_paths[i] : i \in DOMAIN source_paths}

\* Content of a config.guess file found in a source path: "pinned" has
\* CONFIG_GUESS_VERSION and CONFIG_GUESS_SHA256; "edited" has the pinned
\* version line and another checksum; "stale" differs in both.  A file
\* from a corrupted download has content "corrupt".
Contents == {"pinned", "edited", "stale"}

\* what download_file can do: fail (returns None), or write the pinned
\* script or a corrupted one and return its path
DownloadOutcomes == {"failed", "pinned", "corrupt"}

\* verify_checksum that accepts any download
verify_checksum_any(content) == TRUE

\* verify_checksum(downloaded_path, CONFIG_GUESS_SHA256)
verify_checksum(content) == content = "pinned"

\* first source path that holds a config.guess, or None
RECURSIVE first_found(_, _, _)
first_found(paths, files, i) ==
    IF i > Len(paths) THEN None
    ELSE IF files[paths[i]] # "absent" THEN paths[i]
    ELSE first_found(paths, files, i + 1)

\* obtain_config_guess: the returned path (None if there is none), the
\* files afterwards, and which branch was taken.  The search loop runs
\* over source_paths() whatever search_source_paths is.
obtain_config_guess(download_source_path, search_source_paths, files, dl) ==
    LET eb_source_paths == source_paths
        dsp == IF download_source_path = None THEN eb_source_paths[1]
               ELSE download_source_path
        found == first_found(eb_source_paths, files, 1)
    IN  IF found # None
        THEN [path |-> found, files |-> files, outcome |-> "found"]
        ELSE IF dl = "failed"
        THEN [path |-> None, files |-> files, outcome |-> "download_failed"]
        ELSE IF verify_checksum(dl)
        THEN [path |-> dsp, files |-> [files EXCEPT ![dsp] = dl],
              outcome |-> "downloaded"]
        ELSE [path |-> None, files |-> [files EXCEPT ![dsp] = "absent"],
              outcome |-> "checksum_failed"]

\* check_config_guess: the warnings printed for the script at self.config_guess
check_config_guess(content) ==
    (IF content \notin {"pinned", "edited"} THEN {"version"} ELSE {})
    \cup (IF content # "pinned" THEN {"checksum"} ELSE {})

\* raw output of config.guess on the host: pieces of text and whitespace
GuessOutput == <<"x86_64-pc-linux-gnu", "\n">>

Whitespace == {" ", "\n", "\t"}

\* str.strip()
RECURSIVE lstrip(_)
lstrip(raw) ==
    IF raw # <<>> /\ Head(raw) \in Whitespace THEN lstrip(Tail(raw)) ELSE raw

RECURSIVE rstrip(_)
rstrip(raw) ==
    IF raw # <<>> /\ raw[Len(raw)] \in Whitespace
    THEN rstrip(SubSeq(raw, 1, Len(raw) - 1)) ELSE raw

RECURSIVE concat(_)
concat(pieces) ==
    IF pieces = <<>> THEN "" ELSE Head(pieces) \o concat(Tail(pieces))

strip(raw) == concat(rstrip(lstrip(raw)))

\* run_cmd without log_all: a non-zero exit status is only returned
run_cmd_never_raises(exit_code) == FALSE

\* run_cmd(..., log_all=True): a non-zero exit status raises EasyBuildError
run_cmd_raises(exit_code) == exit_code # 0

ExitCodes == {0, 1}

installdir == "/opt/software"

tar_vars ==
    << "am__tar='tar chf - \"$$tardir\"'",
       "am__untar='tar xf -'",
       "am_cv_prog_tar_ustar='easybuild_avoid_ustar_testing'" >>

\* preconfigopts after the tar_config_opts handling of configure_step
configure_preconfigopts(preconfigopts, tar_config_opts) ==
    IF tar_config_opts THEN update_all(preconfigopts, tar_vars) ELSE preconfigopts

\* cmd_prefix + './configure'; configure_cmd_prefix overrules the cmd_prefix
\* argument, which no caller in the two files passes (default '')
configure_command(configure_cmd_prefix) == configure_cmd_prefix \o "./configure"

prefix_option(prefix_opt) ==
    (IF prefix_opt = None THEN "--prefix=" ELSE prefix_opt) \o installdir

\* the words of a string that holds at most one word
words(s) == IF s = "" THEN <<>> ELSE <<s>>

\* configure_cmd with the build type option put before the prefix option
configure_cmd_build_first(preconfigopts, command, prefix, build_type_option, configopts) ==
    preconfigopts \o words(command) \o words(build_type_option)
    \o words(prefix) \o configopts

\* ' '.join([preconfigopts, configure_command, prefix_opt + installdir,
\*           build_type_option, configopts])
configure_cmd(preconfigopts, command, prefix, build_type_option, configopts) ==
    preconfigopts \o words(command) \o words(prefix)
    \o words(build_type_option) \o configopts

\* build_type_option for a build type (None: not determined)
build_type_option(build_type) ==
    IF build_type # None THEN "--build=" \o build_type ELSE ""

\* autoconf_generated that only tests that the configure script exists
autoconf_generated_exists_only(configure_script) == configure_script # "missing"

\* whether configure_step looks at the build type at all
autoconf_generated(configure_script) == configure_script = "autoconf"

\* needs_obtain without the test of self.config_guess
needs_obtain_always(build_type, cg) == build_type = None

\* whether configure_step has to call obtain_config_guess
needs_obtain(build_type, cg) == build_type = None /\ cg = None

\* "%s make %s %s" % (prebuildopts, paracmd, buildopts)
build_cmd(prebuildopts, parallel, buildopts) ==
    prebuildopts \o <<"make">>
    \o (IF parallel # "" THEN <<"-j", parallel>> ELSE <<>>) \o buildopts

\* "make %s" % runtest
test_cmd(runtest) == <<"make", runtest>>

\* "%s make install %s" % (preinstallopts, installopts)
install_cmd(preinstallopts, installopts) ==
    preinstallopts \o <<"make", "install">> \o installopts

\* the build type configure_step ends up with (None: no --build option)
configure_build_type(configure_script, declared, cg, raw_output) ==
    IF ~autoconf_generated(configure_script) THEN None
    ELSE IF declared # None THEN declared
    ELSE IF cg # None THEN strip(raw_output)
    ELSE None

(***************************************************************************)
(* The driver (framework, outside the two files): run_all_steps runs the   *)
(* fetch step once and then configure, build, test, install once per entry *)
(* of the iterated option lists, in list order.                            *)
(***************************************************************************)
Max(a, b) == IF a > b THEN a ELSE b

list_len(v) == IF IsList(v) THEN Len(v.val) ELSE 1

iterate_cnt(opts) == Max(1, Max(list_len(opts.configopts), list_len(opts.buildopts)))

\* the value of an iterated option in iteration idx
iter_value(v, current, idx) ==
    IF ~IsList(v) THEN current
    ELSE IF idx <= Len(v.val) THEN Str(v.val[idx])
    ELSE Str(<<>>)

(***************************************************************************)
(* Initial states: the instance after construction, for the easyconfigs    *)
(* and environments of each specification.                                 *)
(***************************************************************************)
DefaultEasyconfig ==
    [ use |-> [flag \in Features |-> "auto"],
      auto_detect_cpu_features |-> TRUE,
      with_openmp |-> TRUE,
      with_shared |-> TRUE,
      with_single |-> TRUE,
      with_generic_kernel |-> TRUE,
      configure_cmd_prefix |-> "",
      prefix_opt |-> None,
      tar_config_opts |-> FALSE,
      build_type |-> None,
      preconfigopts |-> <<>>,
      configopts |-> <<>>,
      buildopts |-> <<>>,
      prebuildopts |-> <<>>,
      preinstallopts |-> <<>>,
      installopts |-> <<>>,
      runtest |-> "",
      parallel |-> "4" ]

DefaultEnv ==
    [ optarch_generic |-> FALSE,
      cpu_features |-> {"avx", "avx2", "sse4_2"},
      pic |-> FALSE,
      configure_script |-> "autoconf",
      fetch_skipped |-> FALSE ]

DeclaredBuildType == "powerpc64le-unknown-linux-gnu"

EasyBlocks == {"ConfigureMake", "EB_ELPA"}

\* the search_source_paths argument left out (None)
NotGiven == [kind |-> "None", val |-> <<>>]

\* both arguments of obtain_config_guess left out
NoCall == [download_source_path |-> None, search_source_paths |-> NotGiven]

\* The state right after __init__ of the easyblock.  The fail-safe of
\* EB_ELPA.__init__ (an attribute named like a feature already exists) does
\* not trigger: ConfigureMake defines no such attribute.
Constructed ==
    /\ cfg = [ preconfigopts |-> Str(easyconfig.preconfigopts),
               configopts |-> Str(easyconfig.configopts),
               buildopts |-> Str(easyconfig.buildopts) ]
    /\ feat = IF easyblock = "EB_ELPA"
              THEN ELPA_init_features(easyconfig.use,
                                      easyconfig.auto_detect_cpu_features,
                                      env.optarch_generic, env.cpu_features)
              ELSE [flag \in Features |-> "auto"]
    /\ config_guess = None
    /\ iter_opts = [configopts |-> Str(<<>>), buildopts |-> Str(<<>>)]
    /\ iter_idx = 0
    /\ pc = "run_all_steps"
    /\ log = <<>>
    /\ obtainLog = <<>>
    /\ call = NoCall

\* life-cycle runs: both easyblocks, every state of the source paths
LifecycleConfigs ==
    { [DefaultEasyconfig EXCEPT !.build_type = bt, !.runtest = rt, !.with_openmp = omp] :
        bt \in {None, DeclaredBuildType}, rt \in {"", "check"}, omp \in BOOLEAN }

LifecycleEnvs ==
    { [DefaultEnv EXCEPT !.configure_script = cs, !.fetch_skipped = sk] :
        cs \in {"missing", "plain", "autoconf"}, sk \in BOOLEAN }

Init ==
    /\ easyblock \in EasyBlocks
    /\ easyconfig \in LifecycleConfigs
    /\ easyblock = "ConfigureMake" => easyconfig.with_openmp
    /\ env \in LifecycleEnvs
    /\ fs \in [Paths -> Contents \cup {"absent"}]
    /\ Constructed

\* command assembly: every shape of the declared options
CmdConfigs ==
    { [DefaultEasyconfig EXCEPT !.preconfigopts = pre, !.configopts = opts,
                                !.prefix_opt = po, !.configure_cmd_prefix = cp,
                                !.tar_config_opts = tar, !.build_type = bt] :
        pre \in {<<>>, <<"CFLAGS=-O2">>}, opts \in {<<>>, <<"--with-mpi">>},
        po \in {None, "--with-install-prefix="}, cp \in {"", "../"},
        tar \in BOOLEAN, bt \in {None, DeclaredBuildType} }

CmdEnvs ==
    { [DefaultEnv EXCEPT !.configure_script = cs, !.fetch_skipped = sk] :
        cs \in {"plain", "autoconf"}, sk \in BOOLEAN }

InitCmd ==
    /\ easyblock \in EasyBlocks
    /\ easyconfig \in CmdConfigs
    /\ env \in CmdEnvs
    /\ fs = [p \in Paths |-> "absent"]
    /\ Constructed

\* option derivation of EB_ELPA: every combination of the feature
\* tri-states and host features, and every combination of the toggles
FeatureConfigs ==
    { [DefaultEasyconfig EXCEPT !.use = u, !.auto_detect_cpu_features = a] :
        u \in [Features -> TriStates], a \in BOOLEAN }

FeatureEnvs ==
    { [DefaultEnv EXCEPT !.optarch_generic = g, !.cpu_features = h] :
        g \in BOOLEAN, h \in SUBSET HostFeatureNames }

ToggleConfigs ==
    { [DefaultEasyconfig EXCEPT !.with_openmp = omp, !.with_shared = sh,
                                !.with_single = si, !.with_generic_kernel = gk,
                                !.configopts = opts, !.buildopts = bo] :
        omp \in BOOLEAN, sh \in BOOLEAN, si \in BOOLEAN, gk \in BOOLEAN,
        opts \in {<<>>, <<"--with-mpi">>}, bo \in {<<>>, <<"FCFLAGS=-g">>} }

ToggleEnvs == { [DefaultEnv EXCEPT !.pic = pic] : pic \in BOOLEAN }

InitELPA ==
    /\ easyblock = "EB_ELPA"
    /\ \/ easyconfig \in FeatureConfigs /\ env \in FeatureEnvs
       \/ easyconfig \in ToggleConfigs /\ env \in ToggleEnvs
    /\ fs = [p \in Paths |-> "absent"]
    /\ Constructed

(***************************************************************************)
(* Actions                                                                 *)
(***************************************************************************)
\* EB_ELPA.run_all_steps up to the call of the inherited run_all_steps
EB_ELPA_run_all_steps ==
    /\ pc = "run_all_steps"
    /\ easyblock = "EB_ELPA"
    /\ cfg' = ELPA_run_all_steps_cfg(cfg, easyconfig, env.pic, feat)
    /\ pc' = "super_run_all_steps"
    /\ UNCHANGED <<call, easyblock, easyconfig, env, feat, config_guess, fs,
                   iter_opts, iter_idx, log, obtainLog>>

\* the driver's run_all_steps: note the option lists to iterate over
run_all_steps ==
    /\ \/ pc = "super_run_all_steps"
       \/ pc = "run_all_steps" /\ easyblock = "ConfigureMake"
    /\ iter_opts' = [configopts |-> cfg.configopts, buildopts |-> cfg.buildopts]
    /\ iter_idx' = 0
    /\ pc' = "fetch"
    /\ UNCHANGED <<call, easyblock, easyconfig, env, cfg, feat, config_guess, fs,
                   log, obtainLog>>

ObtainEntry(caller, r) ==
    [caller |-> caller, prev |-> config_guess, outcome |-> r.outcome, path |-> r.path]

\* ConfigureMake.fetch_step (the inherited fetch of the sources is left to
\* the framework)
fetch_step ==
    /\ pc = "fetch"
    /\ ~env.fetch_skipped
    /\ \E dl \in DownloadOutcomes :
         LET r == obtain_config_guess(None, None, fs, dl)
         IN  /\ config_guess' = r.path
             /\ fs' = r.files
             /\ obtainLog' = Append(obtainLog, ObtainEntry("fetch_step", r))
    /\ pc' = "iterate"
    /\ UNCHANGED <<call, easyblock, easyconfig, env, cfg, feat, iter_opts, iter_idx, log>>

\* a caller that runs the steps of a component without its fetch step
skip_fetch_step ==
    /\ pc = "fetch"
    /\ env.fetch_skipped
    /\ pc' = "iterate"
    /\ UNCHANGED <<call, easyblock, easyconfig, env, cfg, feat, config_guess, fs,
                   iter_opts, iter_idx, log, obtainLog>>

\* the driver: set the options of the next build variant, or finish
next_iteration ==
    /\ pc = "iterate"
    /\ IF iter_idx < iterate_cnt(iter_opts)
       THEN /\ iter_idx' = iter_idx + 1
            /\ cfg' = [cfg EXCEPT
                 !.configopts = iter_value(iter_opts.configopts, @, iter_idx + 1),
                 !.buildopts = iter_value(iter_opts.buildopts, @, iter_idx + 1)]
            /\ pc' = "configure"
       ELSE /\ pc' = "done"
            /\ UNCHANGED <<iter_idx, cfg>>
    /\ UNCHANGED <<call, easyblock, easyconfig, env, feat, config_guess, fs,
                   iter_opts, log, obtainLog>>

LogEntry(step, cmd, exit_code, guess_run, warnings) ==
    [step |-> step, iter |-> iter_idx, cmd |-> cmd, ec |-> exit_code,
     guess_run |-> guess_run, warnings |-> warnings]

\* ConfigureMake.configure_step: the whole step, from the option handling
\* to the run of the configure command; a failing config.guess raises
\* before the command is assembled (entry with an empty cmd)
configure_step ==
    /\ pc = "configure"
    /\ \E dl \in DownloadOutcomes, guess_ec \in ExitCodes, conf_ec \in ExitCodes :
         LET pre == configure_preconfigopts(cfg.preconfigopts, easyconfig.tar_config_opts)
             detect == autoconf_generated(env.configure_script)
             declared == easyconfig.build_type
             obtains == detect /\ needs_obtain(declared, config_guess)
             r == IF obtains THEN obtain_config_guess(None, None, fs, dl)
                  ELSE [path |-> config_guess, files |-> fs, outcome |-> "none"]
             guess_run == detect /\ declared = None /\ r.path # None
             warnings == IF guess_run THEN check_config_guess(r.files[r.path])
                         ELSE IF detect /\ declared = None THEN {"no_config_guess"}
                         ELSE {}
             guess_failed == guess_run /\ run_cmd_raises(guess_ec)
             build_type == configure_build_type(env.configure_script, declared,
                                                r.path, GuessOutput)
             cmd == configure_cmd(pre.val,
                                  configure_command(easyconfig.configure_cmd_prefix),
                                  prefix_option(easyconfig.prefix_opt),
                                  build_type_option(build_type),
                                  cfg.configopts.val)
         IN  /\ cfg' = [cfg EXCEPT !.preconfigopts = pre]
             /\ config_guess' = r.path
             /\ fs' = r.files
             /\ obtainLog' = IF obtains
                             THEN Append(obtainLog, ObtainEntry("configure_step", r))
                             ELSE obtainLog
             /\ IF guess_failed
                THEN /\ log' = Append(log, LogEntry("configure", <<>>, guess_ec,
                                                    guess_run, warnings))
                     /\ pc' = "aborted"
                ELSE /\ log' = Append(log, LogEntry("configure", cmd, conf_ec,
                                                    guess_run, warnings))
                     /\ pc' = IF run_cmd_raises(conf_ec) THEN "aborted" ELSE "build"
    /\ UNCHANGED <<call, easyblock, easyconfig, env, feat, iter_opts, iter_idx>>

\* ConfigureMake.build_step
build_step ==
    /\ pc = "build"
    /\ \E exit_code \in ExitCodes :
         /\ log' = Append(log, LogEntry("build",
                              build_cmd(easyconfig.prebuildopts, easyconfig.parallel,
                                        cfg.buildopts.val),
                              exit_code, FALSE, {}))
         /\ pc' = IF run_cmd_raises(exit_code) THEN "aborted" ELSE "test"
    /\ UNCHANGED <<call, easyblock, easyconfig, env, cfg, feat, config_guess, fs,
                   iter_opts, iter_idx, obtainLog>>

\* ConfigureMake.test_step
test_step ==
    /\ pc = "test"
    /\ IF easyconfig.runtest # ""
       THEN \E exit_code \in ExitCodes :
              /\ log' = Append(log, LogEntry("test", test_cmd(easyconfig.runtest),
                                             exit_code, FALSE, {}))
              /\ pc' = IF run_cmd_raises(exit_code) THEN "aborted" ELSE "install"
       ELSE /\ log' = Append(log, LogEntry("test", <<>>, 0, FALSE, {}))
            /\ pc' = "install"
    /\ UNCHANGED <<call, easyblock, easyconfig, env, cfg, feat, config_guess, fs,
                   iter_opts, iter_idx, obtainLog>>

\* ConfigureMake.install_step
install_step ==
    /\ pc = "install"
    /\ \E exit_code \in ExitCodes :
         /\ log' = Append(log, LogEntry("install",
                              install_cmd(easyconfig.preinstallopts,
                                          easyconfig.installopts),
                              exit_code, FALSE, {}))
         /\ pc' = IF run_cmd_raises(exit_code) THEN "aborted" ELSE "iterate"
    /\ UNCHANGED <<call, easyblock, easyconfig, env, cfg, feat, config_guess, fs,
                   iter_opts, iter_idx, obtainLog>>

Next ==
    \/ EB_ELPA_run_all_steps
    \/ run_all_steps
    \/ fetch_step
    \/ skip_fetch_step
    \/ next_iteration
    \/ configure_step
    \/ build_step
    \/ test_step
    \/ install_step

Spec == Init /\ [][Next]_vars

SpecCmd == InitCmd /\ [][Next]_vars

NextELPA == EB_ELPA_run_all_steps

SpecELPA == InitELPA /\ [][NextELPA]_vars

(***************************************************************************)
(* obtain_config_guess called with arguments (by an easyblock that wants   *)
(* its own download location or search roots): every choice of the two     *)
(* arguments over the configured source paths and other roots.             *)
(***************************************************************************)
\* longest search_source_paths list passed
MaxSearchPaths == 2

\* roots that are not configured source paths
OtherRoots == {"/other1", "/other2"}

AllRoots == Paths \cup OtherRoots

\* non-empty lists of distinct roots
SearchLists ==
    {l \in UNION {[1..n -> AllRoots] : n \in 1..MaxSearchPaths} :
        \A i, j \in DOMAIN l : i # j => l[i] # l[j]}

Calls ==
    [download_source_path : {None} \cup AllRoots,
     search_source_paths : {NotGiven} \cup {List(l) : l \in SearchLists}]

InitObtain ==
    /\ easyblock = "ConfigureMake"
    /\ easyconfig = DefaultEasyconfig
    /\ env = DefaultEnv
    /\ fs \in [AllRoots -> Contents \cup {"absent"}]
    /\ cfg = [ preconfigopts |-> Str(easyconfig.preconfigopts),
               configopts |-> Str(easyconfig.configopts),
               buildopts |-> Str(easyconfig.buildopts) ]
    /\ feat = [flag \in Features |-> "auto"]
    /\ config_guess = None
    /\ iter_opts = [configopts |-> Str(<<>>), buildopts |-> Str(<<>>)]
    /\ iter_idx = 0
    /\ pc = "call"
    /\ log = <<>>
    /\ obtainLog = <<>>
    /\ call \in Calls

CallEntry(r) ==
    [caller |-> "call", prev |-> config_guess, outcome |-> r.outcome,
     path |-> r.path, files_before |-> fs]

\* one call obtain_config_guess(download_source_path, search_source_paths)
call_obtain_config_guess ==
    /\ pc = "call"
    /\ \E dl \in DownloadOutcomes :
         LET r == obtain_config_guess(call.download_source_path,
                                      call.search_source_paths, fs, dl)
         IN  /\ fs' = r.files
             /\ obtainLog' = Append(obtainLog, CallEntry(r))
    /\ pc' = "returned"
    /\ UNCHANGED <<call, easyblock, easyconfig, env, cfg, feat, config_guess,
                   iter_opts, iter_idx, log>>

NextObtain == call_obtain_config_guess

SpecObtain == InitObtain /\ [][NextObtain]_vars

(***************************************************************************)
(* Claims                                                                  *)
(***************************************************************************)
Count(word, s) == Cardinality({i \in DOMAIN s : s[i] = word})

HasWord(word, s) == \E i \in DOMAIN s : s[i] = word

IsPrefix(p, s) == Len(p) <= Len(s) /\ SubSeq(s, 1, Len(p)) = p

IsSuffix(p, s) == Len(p) <= Len(s) /\ SubSeq(s, Len(s) - Len(p) + 1, Len(s)) = p

\* run_all_steps of EB_ELPA has put the option lists in place
Expanded == easyblock = "EB_ELPA" /\ pc = "super_run_all_steps"

\* what run_all_steps appended to the declared configopts, in entry k
AppendedOpts(k) ==
    SubSeq(cfg.configopts.val[k], 2 + Len(easyconfig.configopts),
           Len(cfg.configopts.val[k]))

\* C1: for every combination of the feature tri-states, the options
\* appended by EB_ELPA.run_all_steps hold, for each mapped flag name, exactly
\* one of --enable-<flag> and --disable-<flag>: --enable-<flag> iff the
\* feature is enabled, --disable-<flag> iff it is disabled or still auto.
C1_OneFlagPerName ==
    Expanded =>
        \A k \in DOMAIN cfg.configopts.val :
        \A flag \in Features :
        \A j \in DOMAIN conf_opt(flag) :
            LET en == Count("--enable-" \o conf_opt(flag)[j], AppendedOpts(k))
                dis == Count("--disable-" \o conf_opt(flag)[j], AppendedOpts(k))
            IN  /\ en + dis = 1
                /\ en = 1 <=> feat[flag] = "enabled"
                /\ dis = 1 <=> feat[flag] \in {"disabled", "auto"}

\* C1 witness: sse4_2 enabled, avx512f undetected, avx2 disabled by the user
C1_Witness ==
    /\ Expanded
    /\ feat["sse4_2"] = "enabled" /\ feat["avx512f"] = "auto"
    /\ feat["avx2"] = "disabled" /\ feat["avx"] = "enabled"
    /\ HasWord("--enable-sse", AppendedOpts(1))
    /\ HasWord("--enable-sse-assembly", AppendedOpts(1))
    /\ HasWord("--disable-avx512", AppendedOpts(1))
    /\ HasWord("--disable-avx2", AppendedOpts(1))

\* C2: after the expansion, configopts and buildopts are lists of the same
\* length, 1 without with_openmp and 2 with it, in the order
\* [--disable-openmp, --enable-openmp]; every configopts entry is the openmp
\* flag followed by the same common options (the declared configopts, then
\* the appended ones, with --enable-shared iff with_shared), and every
\* buildopts entry is the common build options.
C2_VariantLists ==
    Expanded =>
        LET co == cfg.configopts.val
            bo == cfg.buildopts.val
            n == IF easyconfig.with_openmp THEN 2 ELSE 1
        IN  /\ IsList(cfg.configopts) /\ IsList(cfg.buildopts)
            /\ Len(co) = n /\ Len(bo) = n
            /\ co[1][1] = "--disable-openmp"
            /\ n = 2 => co[2][1] = "--enable-openmp"
            /\ \A k \in 1..n :
                 /\ Tail(co[k]) = Tail(co[1])
                 /\ IsPrefix(easyconfig.configopts, Tail(co[k]))
                 /\ Count("--enable-openmp", co[k]) + Count("--disable-openmp", co[k]) = 1
                 /\ HasWord("--enable-shared", co[k]) <=> easyconfig.with_shared
                 /\ HasWord("--with-pic", co[k]) <=> env.pic
                 /\ HasWord("--enable-generic", co[k]) <=> easyconfig.with_generic_kernel
                 /\ HasWord("--enable-single-precision", co[k]) <=> easyconfig.with_single
                 /\ bo[k] = Append(easyconfig.buildopts, "V=1")

\* C2 witness: with_openmp and with_shared set, declared options present
C2_Witness ==
    /\ Expanded
    /\ easyconfig.with_openmp /\ easyconfig.with_shared
    /\ easyconfig.configopts # <<>> /\ easyconfig.buildopts # <<>>
    /\ Len(cfg.configopts.val) = 2
    /\ HasWord("--enable-shared", cfg.configopts.val[1])
    /\ HasWord("--enable-shared", cfg.configopts.val[2])

\* C3: with --optarch=GENERIC, initialization turns no feature from auto
\* to enabled, for every host feature set and both values of
\* auto_detect_cpu_features, and each feature left in auto by the user gets
\* --disable-* flags.
C3_GenericEnablesNothing ==
    (easyblock = "EB_ELPA" /\ env.optarch_generic) =>
        \A flag \in Features :
            easyconfig.use[flag] = "auto" =>
                /\ feat[flag] = "auto"
                /\ Expanded =>
                     \A j \in DOMAIN conf_opt(flag) :
                         /\ HasWord("--disable-" \o conf_opt(flag)[j], AppendedOpts(1))
                         /\ ~HasWord("--enable-" \o conf_opt(flag)[j], AppendedOpts(1))

\* C3 witness: generic mode on a host that reports every feature
C3_Witness ==
    /\ Expanded
    /\ env.optarch_generic
    /\ easyconfig.auto_detect_cpu_features
    /\ env.cpu_features = HostFeatureNames
    /\ \A flag \in Features : easyconfig.use[flag] = "auto"
    /\ HasWord("--disable-avx", AppendedOpts(1))

\* the host reports the feature, directly or (avx only) as avx1.0
HostHas(flag) ==
    \/ flag \in env.cpu_features
    \/ flag = "avx" /\ "avx1.0" \in env.cpu_features

\* C10: initialization changes a feature only from auto to enabled, and
\* only with auto_detect_cpu_features set, generic mode off and the feature
\* reported by the host ('avx1.0' counting as 'avx' and as nothing else); a
\* feature the user enabled or disabled keeps its value, and an auto
\* feature the host does not report stays auto.
C10_InitFrame ==
    easyblock = "EB_ELPA" =>
        \A flag \in Features :
            /\ feat[flag] # easyconfig.use[flag] =>
                 /\ easyconfig.use[flag] = "auto" /\ feat[flag] = "enabled"
                 /\ easyconfig.auto_detect_cpu_features
                 /\ ~env.optarch_generic
                 /\ HostHas(flag)
            /\ easyconfig.use[flag] # "auto" => feat[flag] = easyconfig.use[flag]
            /\ (easyconfig.use[flag] = "auto" /\ ~HostHas(flag)) => feat[flag] = "auto"

\* C10 witness: a macOS host reporting avx1.0 only; avx gets enabled, avx2
\* stays auto, and the user's choices for the others are kept
C10_Witness ==
    /\ easyblock = "EB_ELPA"
    /\ easyconfig.auto_detect_cpu_features /\ ~env.optarch_generic
    /\ env.cpu_features = {"avx1.0", "vsx"}
    /\ easyconfig.use["avx"] = "auto" /\ feat["avx"] = "enabled"
    /\ easyconfig.use["avx2"] = "auto" /\ feat["avx2"] = "auto"
    /\ easyconfig.use["vsx"] = "disabled" /\ feat["vsx"] = "disabled"
    /\ easyconfig.use["sse4_2"] = "enabled" /\ feat["sse4_2"] = "enabled"

\* the --build options configure_step can emit in this model
BuildOptions == {"--build=" \o DeclaredBuildType, "--build=" \o "x86_64-pc-linux-gnu"}

HasBuildOption(cmd) == \E i \in DOMAIN cmd : cmd[i] \in BuildOptions

ConfigureEntries == {i \in DOMAIN log : log[i].step = "configure"}

\* configure entries whose command line was assembled and run
AssembledEntries == {i \in ConfigureEntries : log[i].cmd # <<>>}

\* the configure step has just run its command
JustConfigured ==
    /\ pc \in {"build", "aborted"}
    /\ log # <<>>
    /\ log[Len(log)].step = "configure"
    /\ log[Len(log)].cmd # <<>>

\* C4: the configure command is preconfigopts, then
\* <configure_cmd_prefix>./configure, then the prefix option right after
\* it, then the optional --build option, then configopts; the assignments
\* of tar_config_opts are part of preconfigopts, after the declared ones.
C4_CommandOrder ==
    JustConfigured =>
        LET cmd == log[Len(log)].cmd
            pre == cfg.preconfigopts.val
            opts == cfg.configopts.val
            k == Len(pre) + 1
            rest == SubSeq(cmd, k + 2, Len(cmd))
        IN  /\ Len(cmd) >= k + 1
            /\ SubSeq(cmd, 1, Len(pre)) = pre
            /\ cmd[k] = easyconfig.configure_cmd_prefix \o "./configure"
            /\ cmd[k + 1] = (IF easyconfig.prefix_opt = None THEN "--prefix="
                             ELSE easyconfig.prefix_opt) \o "/opt/software"
            /\ \/ rest = opts
               \/ /\ rest # <<>>
                  /\ Head(rest) \in BuildOptions
                  /\ Tail(rest) = opts
            /\ Count(cmd[k], cmd) = 1 /\ Count(cmd[k + 1], cmd) = 1
            /\ IsPrefix(easyconfig.preconfigopts, pre)
            /\ easyconfig.tar_config_opts =>
                 \A j \in DOMAIN tar_vars : HasWord(tar_vars[j], pre)
            /\ ~easyconfig.tar_config_opts =>
                 \A j \in DOMAIN tar_vars : ~HasWord(tar_vars[j], cmd)

\* C4 witness: every fragment present, tar_config_opts set
C4_Witness ==
    /\ JustConfigured
    /\ easyconfig.preconfigopts # <<>> /\ easyconfig.configopts # <<>>
    /\ easyconfig.tar_config_opts
    /\ easyconfig.configure_cmd_prefix # "" /\ easyconfig.prefix_opt # None
    /\ HasBuildOption(log[Len(log)].cmd)
    /\ log[Len(log)].guess_run
    /\ iter_idx = 1

Last(s) == s[Len(s)]

\* the fetch step called obtain_config_guess and the checksum of the
\* download did not match
FetchChecksumFailed ==
    /\ obtainLog # <<>>
    /\ obtainLog[1].caller = "fetch_step"
    /\ obtainLog[1].outcome = "checksum_failed"

\* a later call of obtain_config_guess returned a script
ObtainedLater == \E j \in DOMAIN obtainLog : j > 1 /\ obtainLog[j].path # None

\* C5 as stated: after a checksum mismatch of the freshly downloaded
\* config.guess, the file is removed, nothing is raised, the memoized
\* artifact is none and the configure command has no --build= flag.
C5_Original ==
    FetchChecksumFailed =>
        /\ obtainLog[1].path = None
        /\ \A i \in AssembledEntries : ~HasBuildOption(log[i].cmd)

\* C5 amended: after a checksum mismatch the downloaded file is removed
\* (no corrupted download is ever left in a source path), nothing is raised,
\* the call returns none and none is memoized; the life cycle goes on, and
\* a configure command has a --build= flag only if build_type is declared
\* or a later attempt of the configure step obtained the script.
C5_ChecksumMismatch ==
    /\ \A p \in Paths : fs[p] # "corrupt"
    /\ \A i \in DOMAIN obtainLog :
         obtainLog[i].outcome = "checksum_failed" => obtainLog[i].path = None
    /\ (obtainLog # <<>> /\ Last(obtainLog).outcome = "checksum_failed") =>
         /\ config_guess = None
         /\ fs[source_paths[1]] = "absent"
         /\ pc = "aborted" => Last(log).ec # 0
    /\ FetchChecksumFailed =>
         /\ pc = "aborted" => (log # <<>> /\ Last(log).ec # 0)
         /\ \A i \in AssembledEntries :
              HasBuildOption(log[i].cmd) =>
                  \/ easyconfig.build_type # None
                  \/ log[i].guess_run /\ ObtainedLater
         /\ \A i \in AssembledEntries :
              (easyconfig.build_type = None /\ ~ObtainedLater) =>
                  ~HasBuildOption(log[i].cmd)

\* C5 witness: the checksum failed in the fetch step and in the configure
\* step, and the life cycle finished without any --build= flag
C5_Witness ==
    /\ FetchChecksumFailed
    /\ pc = "done"
    /\ Len(obtainLog) >= 2
    /\ \A j \in DOMAIN obtainLog : obtainLog[j].outcome = "checksum_failed"
    /\ env.configure_script = "autoconf"
    /\ \A i \in ConfigureEntries : ~HasBuildOption(log[i].cmd)

\* C6: a non-zero exit status of the command of a configure, build, test
\* or install step aborts the life cycle at once: the failed entry is the
\* last one ever run (no retry, no later step, no later variant); and the
\* life cycle is aborted by nothing else, so a failed download or checksum
\* mismatch of config.guess never aborts it.
C6_FailureAborts ==
    /\ \A i \in DOMAIN log : log[i].ec # 0 => (i = Len(log) /\ pc = "aborted")
    /\ pc = "aborted" => (log # <<>> /\ Last(log).ec # 0)
    /\ \A i \in DOMAIN obtainLog :
         (obtainLog[i].path = None /\ pc = "aborted") => Last(log).ec # 0

\* C6 witness: the build of the first of two variants failed after the
\* download of config.guess had failed in the fetch step
C6_Witness ==
    /\ pc = "aborted"
    /\ iterate_cnt(iter_opts) = 2 /\ iter_idx = 1
    /\ Len(log) = 2 /\ log[2].step = "build" /\ log[2].ec # 0
    /\ obtainLog # <<>> /\ obtainLog[1].outcome = "download_failed"

\* C7 as stated: once the fetch step has run, no configure step calls
\* obtain_config_guess again, whatever the fetch step got.
C7_Original ==
    \A i \in DOMAIN obtainLog :
        obtainLog[i].caller = "configure_step" =>
            ~\E j \in 1..(i - 1) : obtainLog[j].caller = "fetch_step"

\* C7 amended: the fetch step calls obtain_config_guess once and memoizes
\* the result; once a script has been obtained nothing calls it again and
\* the memoized path never changes; a configure step calls it (at most once)
\* only while the memoized result is none.
C7_ObtainOnceFound ==
    /\ \A i \in DOMAIN obtainLog :
         /\ obtainLog[i].caller = "fetch_step" => i = 1
         /\ obtainLog[i].caller = "configure_step" => obtainLog[i].prev = None
         /\ i < Len(obtainLog) => obtainLog[i].path = None
         /\ i > 1 => obtainLog[i - 1].path = obtainLog[i].prev
    /\ config_guess = IF obtainLog = <<>> THEN None ELSE Last(obtainLog).path
    /\ Cardinality({i \in DOMAIN obtainLog : obtainLog[i].caller = "configure_step"})
          <= Cardinality(ConfigureEntries)
    /\ (env.fetch_skipped \/ pc \in {"run_all_steps", "super_run_all_steps", "fetch"})
          <=> ~\E i \in DOMAIN obtainLog : obtainLog[i].caller = "fetch_step"

\* C7 witness: the fetch step found a script and both variants configured
\* with it, without a further call
C7_Witness ==
    /\ pc = "done"
    /\ Len(obtainLog) = 1 /\ obtainLog[1].path # None
    /\ Cardinality({i \in ConfigureEntries : log[i].guess_run}) = 2

StepOrder == <<"configure", "build", "test", "install">>

\* the step and the variant of the i-th entry of a run of all variants
ExpectedStep(i) == StepOrder[((i - 1) % 4) + 1]

ExpectedIter(i) == ((i - 1) \div 4) + 1

\* C8: the driver runs configure, build, test, install once per entry of
\* the lists EB_ELPA.run_all_steps made, in list order and one step after
\* the other (the --disable-openmp variant finishes its install before the
\* --enable-openmp variant starts its configure), and the k-th variant's
\* configure and build commands end with the k-th entries of the lists.
C8_VariantSequence ==
    (easyblock = "EB_ELPA" /\ pc \notin {"run_all_steps", "super_run_all_steps"}) =>
        LET co == iter_opts.configopts.val
            bo == iter_opts.buildopts.val
        IN  /\ Len(log) <= 4 * Len(co)
            /\ \A i \in DOMAIN log :
                 /\ log[i].step = ExpectedStep(i)
                 /\ log[i].iter = ExpectedIter(i)
                 /\ (log[i].step = "configure" /\ log[i].cmd # <<>>) =>
                       /\ IsSuffix(co[log[i].iter], log[i].cmd)
                       /\ HasWord("--disable-openmp", log[i].cmd) <=> log[i].iter = 1
                       /\ HasWord("--enable-openmp", log[i].cmd) <=> log[i].iter = 2
                 /\ log[i].step = "build" => IsSuffix(bo[log[i].iter], log[i].cmd)
            /\ pc = "done" => Len(log) = 4 * Len(co)
            /\ pc \in {"configure", "build", "test", "install"} =>
                 (Len(log) < 4 * Len(co) /\ pc = ExpectedStep(Len(log) + 1)
                  /\ iter_idx = ExpectedIter(Len(log) + 1))

\* C8 witness: both variants ran to the end
C8_Witness ==
    /\ easyblock = "EB_ELPA"
    /\ pc = "done"
    /\ Len(log) = 8
    /\ HasWord("--disable-openmp", log[1].cmd)
    /\ HasWord("--enable-openmp", log[5].cmd)
    /\ log[4].step = "install" /\ log[4].iter = 1

SearchRoots ==
    IF call.search_source_paths = NotGiven THEN source_paths
    ELSE call.search_source_paths.val

DownloadRoot ==
    IF call.download_source_path = None THEN source_paths[1]
    ELSE call.download_source_path

\* C11: obtain_config_guess searches exactly the roots of its
\* search_source_paths argument (the configured source paths when it is
\* omitted), in list order, and returns the first root that has the file
\* without any download; only when none of those roots has the file does it
\* download, into download_source_path (the first configured source path
\* when omitted).
C11_SearchRootsArgument ==
    pc = "returned" =>
        LET e == Last(obtainLog)
            roots == SearchRoots
            hits == {i \in DOMAIN roots : e.files_before[roots[i]] # "absent"}
        IN  IF hits # {}
            THEN /\ e.outcome = "found"
                 /\ \E i \in hits : (\A j \in hits : i <= j) /\ e.path = roots[i]
                 /\ fs = e.files_before
            ELSE /\ e.outcome \in {"downloaded", "download_failed", "checksum_failed"}
                 /\ e.outcome = "downloaded" =>
                        (e.path = DownloadRoot /\ fs[DownloadRoot] = "pinned")
                 /\ e.outcome # "downloaded" => e.path = None
                 /\ \A p \in AllRoots : p # DownloadRoot => fs[p] = e.files_before[p]

=============================================================================
